---- MODULE Spec2Model ----
(***************************************************************************)
(* A model of the two passport-photo editors of this repository:           *)
(*                                                                         *)
(*   - the "offset editor", PakistaniPassportPhotoEditor (src/src/App.js,  *)
(*     lines 146-491): 600 DPI, head-height scaling, zoomFactor and        *)
(*     vertical/horizontal pixel offsets;                                  *)
(*   - the "crop-region editor", PassportPhotoEditor                       *)
(*     (src/src/components/PassportPhotoEditor.js): 300 DPI, a draggable   *)
(*     and resizable crop region, zoomLevel, rotationAngle, aspect ratio.  *)
(*                                                                         *)
(* One editor is mounted per behaviour (variable editor, fixed by Init).   *)
(* Each action is one handler or one callback segment between two awaits,  *)
(* followed by the cropped-canvas effect that React re-runs after the      *)
(* state change.  JavaScript numbers are modelled as exact rationals       *)
(* <<n, d>> extended with +Infinity <<1,0>>, -Infinity <<-1,0>> and NaN    *)
(* <<0,0>>; floating-point rounding and the sign of zero are not modelled. *)
(***************************************************************************)
EXTENDS Integers, Sequences, FiniteSets, TLC

VARIABLES
    editor,            \* which component is mounted: "offset" or "crop"
    loadModels,        \* position of the async loadModels: "pending", "done", "failed"
    tinyLoaded,        \* faceapi.nets.tinyFaceDetector.isLoaded
    isLoading,
    originalImage,     \* Null or the Image object
    faceDetection,     \* Null or the detection object
    error,             \* offset editor: Null or [message |-> ...]
    zoomFactor,        \* offset editor (rational)
    verticalOffset,    \* offset editor (integer)
    horizontalOffset,  \* offset editor (integer)
    cropRegion,        \* crop-region editor: [x, y, width, height] (rationals)
    isDragging,
    resizeHandle,
    aspectRatio,
    zoomLevel,
    rotationAngle,
    showGuides,
    selectedAspectRatioPreset,
    customAspectRatio,
    isAspectRatioCustom,
    originalCanvas,    \* the canvas behind originalCanvasRef
    croppedCanvas,     \* the canvas behind croppedCanvasRef
    pending,           \* uploads whose img.onload / detection has not completed
    lastAlert,         \* Null or [message |-> ...]: the last alert() shown
    downloads,         \* number of files handed to the browser by link.click()
    events             \* user events handled so far (uploads, controls, downloads)

commonVars == <<editor, loadModels, tinyLoaded, isLoading, originalImage,
                faceDetection, originalCanvas, croppedCanvas, pending,
                lastAlert, downloads, events>>
offsetVars == <<error, zoomFactor, verticalOffset, horizontalOffset>>
cropVars == <<cropRegion, isDragging, resizeHandle, aspectRatio, zoomLevel,
              rotationAngle, showGuides, selectedAspectRatioPreset,
              customAspectRatio, isAspectRatioCustom>>
vars == <<commonVars, offsetVars, cropVars>>

----------------------------------------------------------------------------
(* Bounds of the model *)

MaxPending == 2   \* uploads in flight at the same time
MaxEvents == 3    \* user events (uploads, controls, download clicks) in a behaviour

----------------------------------------------------------------------------
(* JavaScript numbers as extended rationals *)

Null == [null |-> TRUE]

Abs(i) == IF i < 0 THEN -i ELSE i
Sgn(i) == IF i < 0 THEN -1 ELSE IF i > 0 THEN 1 ELSE 0

RECURSIVE GCD(_, _)
GCD(a, b) == IF b = 0 THEN a ELSE GCD(b, a % b)

Norm(n, d) ==
    IF d = 0 THEN <<Sgn(n), 0>>
    ELSE LET g == GCD(Abs(n), Abs(d))
             s == Sgn(d)
         IN  <<(s * n) \div g, (s * d) \div g>>

R(i) == <<i, 1>>
NaN == <<0, 0>>
IsNaN(a) == a = NaN
IsFinite(a) == a[2] # 0

\* a * b, with the common factors cancelled before multiplying
RMul(a, b) ==
    LET g1 == GCD(Abs(a[1]), Abs(b[2]))
        g2 == GCD(Abs(b[1]), Abs(a[2]))
        h1 == IF g1 = 0 THEN 1 ELSE g1
        h2 == IF g2 = 0 THEN 1 ELSE g2
    IN  Norm((a[1] \div h1) * (b[1] \div h2), (a[2] \div h2) * (b[2] \div h1))
\* 1 / b: 1 / 0 is Infinity, 1 / Infinity is 0, 1 / NaN is NaN
Recip(b) ==
    IF b[1] = 0 /\ b[2] # 0 THEN <<1, 0>> ELSE <<b[2] * Sgn(b[1]), Abs(b[1])>>
RDiv(a, b) == RMul(a, Recip(b))
RNeg(a) == <<-a[1], a[2]>>
RAdd(a, b) ==
    IF IsNaN(a) \/ IsNaN(b) THEN NaN
    ELSE IF a[2] = 0 /\ b[2] = 0 THEN (IF a = b THEN a ELSE NaN)
    ELSE IF a[2] = 0 THEN a
    ELSE IF b[2] = 0 THEN b
    ELSE LET g == GCD(a[2], b[2])
         IN  Norm(a[1] * (b[2] \div g) + b[1] * (a[2] \div g), (a[2] \div g) * b[2])
RSub(a, b) == RAdd(a, RNeg(b))
RLt(a, b) ==
    /\ ~IsNaN(a)
    /\ ~IsNaN(b)
    /\ IF a[2] = 0 /\ b[2] = 0 THEN a[1] < b[1]
       ELSE IF a[2] = 0 THEN a[1] < 0
       ELSE IF b[2] = 0 THEN b[1] > 0
       ELSE a[1] * b[2] < b[1] * a[2]
RGt(a, b) == RLt(b, a)
RLe(a, b) == ~IsNaN(a) /\ ~IsNaN(b) /\ ~RLt(b, a)
\* Math.max / Math.min: NaN if either argument is NaN
RMax(a, b) == IF IsNaN(a) \/ IsNaN(b) THEN NaN ELSE IF RLt(a, b) THEN b ELSE a
RMin(a, b) == IF IsNaN(a) \/ IsNaN(b) THEN NaN ELSE IF RLt(b, a) THEN b ELSE a

\* Math.round(n / d) for integers n, d with d > 0: floor(n/d + 1/2)
Round(n, d) == (2 * n + d) \div (2 * d)
\* Math.round((mm / 25.4) * dpi) for a finite rational mm >= 0
MmToPx(mm, dpi) == Round(mm[1] * dpi * 10, mm[2] * 254)

----------------------------------------------------------------------------
(* Constants of the offset editor (src/src/App.js, lines 33-50) *)

PASSPORT_DPI == 600
PASSPORT_WIDTH_MM == 35
PASSPORT_HEIGHT_MM == 45
HEAD_HEIGHT_MIN_MM == 32
HEAD_HEIGHT_MAX_MM == 36
TOP_MARGIN_MM == <<7, 2>>
EYE_ANGLE_TOLERANCE_DEGREES == 10
MIN_IMAGE_RESOLUTION == 600
ZOOM_STEP == <<1, 100>>
VERTICAL_STEP == 1
HORIZONTAL_STEP == 1
MAX_VERTICAL_OFFSET == 50
MIN_VERTICAL_OFFSET == -50
MAX_HORIZONTAL_OFFSET == 50
MIN_HORIZONTAL_OFFSET == -50
MAX_ZOOM_FACTOR == <<2, 5>>
MIN_ZOOM_FACTOR == <<0, 1>>
DEFAULT_ZOOM_FACTOR == <<1, 5>>

(* Constants of the crop-region editor (PassportPhotoEditor.js) *)
PPE_DPI == 300
PPE_WIDTH_MM == 35
PPE_HEIGHT_MM == 45
PPE_MIN_RESOLUTION == 600

\* An HTML canvas element is 300 x 150 until its width and height are set
CANVAS_DEFAULT_WIDTH == 300
CANVAS_DEFAULT_HEIGHT == 150

----------------------------------------------------------------------------
(* The inputs: files the user can choose, and what the external detector  *)
(* returns for each.  Landmark indices are those of the 68-point model:   *)
(* positions[8] is the chin, getNose()[3] is positions[30],               *)
(* getLeftEye()[0] is positions[36], getRightEye()[0] is positions[42].   *)

Pt(x, y) == [x |-> x, y |-> y]
Box(x, y, w, h) == [x |-> x, y |-> y, width |-> w, height |-> h]
Detection(box, chin, nose, p36, p42, p45) ==
    [box |-> box,
     positions |-> (8 :> chin @@ 30 :> nose @@ 36 :> p36 @@ 42 :> p42 @@ 45 :> p45)]

\* frontal, eye line level
FaceA == Detection(Box(200, 150, 200, 250), Pt(300, 420), Pt(300, 300),
                   Pt(250, 240), Pt(320, 240), Pt(360, 240))
\* slightly tilted (about 6.3 degrees), bounding box close to the top edge
FaceB == Detection(Box(250, 40, 300, 400), Pt(400, 470), Pt(400, 270),
                   Pt(330, 180), Pt(420, 190), Pt(470, 196))
\* tilted by about 12.5 degrees
FaceT == Detection(Box(250, 200, 300, 350), Pt(380, 560), Pt(395, 420),
                   Pt(330, 300), Pt(420, 320), Pt(470, 331))

NoDetection == [none |-> TRUE]     \* detectSingleFace resolves to undefined
DetectionThrows == [throws |-> TRUE] \* the detection promise rejects

File(name, decodes, w, h, det) ==
    [name |-> name, decodes |-> decodes, width |-> w, height |-> h, detect |-> det]

Files == {
    File("a.jpg", TRUE, 600, 600, FaceA),
    File("b.jpg", TRUE, 800, 1000, FaceB),
    File("tilted.jpg", TRUE, 800, 800, FaceT),
    File("narrow.jpg", TRUE, 599, 800, FaceA),
    File("short.jpg", TRUE, 800, 599, FaceA),
    File("noface.jpg", TRUE, 800, 600, NoDetection),
    File("throws.jpg", TRUE, 600, 800, DetectionThrows),
    File("broken.jpg", FALSE, 0, 0, NoDetection) }

\* const img = new Image(); img.src = URL.createObjectURL(file)
Image(file) == [src |-> file.name, width |-> file.width, height |-> file.height]
FileOf(img) == CHOOSE f \in Files : f.name = img.src

IsFace(det) == det # NoDetection /\ det # DetectionThrows /\ det # Null

----------------------------------------------------------------------------
(* Offset editor: the geometry *)

\* Mutant: the head top without Math.max(0, ...)
getTopOfHead_NoClamp(detection, currentZoomFactor) ==
    [x |-> R(detection.positions[30].x),
     y |-> RSub(R(detection.box.y), RMul(R(detection.box.height), currentZoomFactor))]

\* getTopOfHead (App.js 294-302)
getTopOfHead(detection, currentZoomFactor) ==
    LET noseTip == detection.positions[30]
        y == detection.box.y
        height == detection.box.height
        headTopY == RMax(R(0), RSub(R(y), RMul(R(height), currentZoomFactor)))
    IN  [x |-> R(noseTip.x), y |-> headTopY]

passportWidthPx == MmToPx(R(PASSPORT_WIDTH_MM), PASSPORT_DPI)
passportHeightPx == MmToPx(R(PASSPORT_HEIGHT_MM), PASSPORT_DPI)
minHeadHeightPx == MmToPx(R(HEAD_HEIGHT_MIN_MM), PASSPORT_DPI)
maxHeadHeightPx == MmToPx(R(HEAD_HEIGHT_MAX_MM), PASSPORT_DPI)
targetHeadHeightPx == RDiv(R(minHeadHeightPx + maxHeadHeightPx), R(2))
\* Mutant: the top margin converted at the crop-region editor's 300 DPI
topMarginPx_AtCropDpi == MmToPx(TOP_MARGIN_MM, PPE_DPI)
topMarginPx == MmToPx(TOP_MARGIN_MM, PASSPORT_DPI)

\* Mutant: the head height measured from the top of the bounding box, not from
\* the zoom-adjusted head top
HeadScale_FromBoxTop(detection, zoom) ==
    RDiv(targetHeadHeightPx, RSub(R(detection.positions[8].y), R(detection.box.y)))

\* const scale = targetHeadHeightPx / actualHeadHeightPx (App.js 265-274)
HeadScale(detection, zoom) ==
    LET chin == detection.positions[8]
        topOfHead == getTopOfHead(detection, zoom)
        actualHeadHeightPx == RSub(R(chin.y), topOfHead.y)
    IN  RDiv(targetHeadHeightPx, actualHeadHeightPx)

\* Mutant: the canvas sized after the uploaded image instead of the passport
UpdateCroppedCanvas_ImageSized(img, detection, zoom, vOff, hOff, source, canvas) ==
    IF img = Null \/ detection = Null THEN canvas
    ELSE [width |-> img.width, height |-> img.height, draw |-> canvas.draw]

\* The cropped-canvas effect (App.js 249-290).  canvas is the cropped canvas
\* before the effect; the result is the canvas after it.
UpdateCroppedCanvas(img, detection, zoom, vOff, hOff, source, canvas) ==
    IF img = Null \/ detection = Null THEN canvas
    ELSE
      LET topOfHead == getTopOfHead(detection, zoom)
          scale == HeadScale(detection, zoom)
          scaledTopOfHeadY == RMul(topOfHead.y, scale)
          offsetY == RAdd(RSub(R(topMarginPx), scaledTopOfHeadY), R(vOff))
          faceCenterX == RAdd(R(detection.box.x), RDiv(R(detection.box.width), R(2)))
          scaledFaceCenterX == RMul(faceCenterX, scale)
          offsetX == RAdd(RSub(RDiv(R(passportWidthPx), R(2)), scaledFaceCenterX),
                          R(hOff))
      IN  [width |-> passportWidthPx,
           height |-> passportHeightPx,
           draw |-> [source |-> source.image,
                     scale |-> scale,
                     sx |-> R(0), sy |-> R(0),
                     sw |-> R(img.width), sh |-> R(img.height),
                     dx |-> offsetX, dy |-> offsetY,
                     dw |-> RMul(R(img.width), scale),
                     dh |-> RMul(R(img.height), scale),
                     transform |-> <<>>,
                     guides |-> FALSE]]

\* Math.abs(Math.atan2(dy, dx) * 180 / Math.PI) > EYE_ANGLE_TOLERANCE_DEGREES
\* (App.js 224-230), decided on the tangent: tan(10 degrees) lies strictly
\* between TAN_TOLERANCE_NUM / TAN_TOLERANCE_DEN and the next millionth, and no
\* eye line of the modelled faces falls in that gap.
TAN_TOLERANCE_NUM == 176326
TAN_TOLERANCE_DEN == 1000000
EyeAngleExceedsTolerance(detection) ==
    LET leftEye == detection.positions[36]
        rightEye == detection.positions[42]
        x == rightEye.x - leftEye.x
        y == rightEye.y - leftEye.y
    IN  IF x > 0 THEN Abs(y) * TAN_TOLERANCE_DEN > x * TAN_TOLERANCE_NUM
        ELSE ~(x = 0 /\ y = 0)

----------------------------------------------------------------------------
(* Initial state: both components after their first render *)

Msg(text) == [message |-> text]
NoHandle == "none"
NoFile == [nofile |-> TRUE]   \* event.target.files[0] is undefined

\* Values a slider change event can carry in event.target.value
ZoomRequests == {<<2, 5>>, <<1, 2>>}
OffsetRequests == {-50, 51}

Init ==
    /\ editor \in {"offset", "crop"}
    /\ loadModels = "pending"
    /\ tinyLoaded = FALSE
    /\ isLoading = TRUE
    /\ originalImage = Null
    /\ faceDetection = Null
    /\ error = Null
    /\ zoomFactor = DEFAULT_ZOOM_FACTOR
    /\ verticalOffset = 0
    /\ horizontalOffset = 0
    /\ cropRegion = [x |-> R(0), y |-> R(0), width |-> R(0), height |-> R(0)]
    /\ isDragging = FALSE
    /\ resizeHandle = NoHandle
    /\ aspectRatio = <<3, 4>>
    /\ zoomLevel = R(1)
    /\ rotationAngle = R(0)
    /\ showGuides = TRUE
    /\ selectedAspectRatioPreset = "3:4"
    /\ customAspectRatio = ""
    /\ isAspectRatioCustom = FALSE
    /\ originalCanvas = [width |-> CANVAS_DEFAULT_WIDTH,
                         height |-> CANVAS_DEFAULT_HEIGHT, image |-> Null]
    /\ croppedCanvas = [width |-> CANVAS_DEFAULT_WIDTH,
                        height |-> CANVAS_DEFAULT_HEIGHT, draw |-> Null]
    /\ pending = {}
    /\ lastAlert = Null
    /\ downloads = 0
    /\ events = 0

----------------------------------------------------------------------------
(* Offset editor: model loading and upload (App.js 159-245) *)

\* Mutant: horizontalOffset missing from the effect's dependency array
Effect_MissingDependency ==
    croppedCanvas' =
        IF /\ horizontalOffset' # horizontalOffset
           /\ originalImage' = originalImage /\ faceDetection' = faceDetection
           /\ zoomFactor' = zoomFactor /\ verticalOffset' = verticalOffset
          THEN croppedCanvas
          ELSE UpdateCroppedCanvas(originalImage', faceDetection', zoomFactor',
                                   verticalOffset', horizontalOffset',
                                   originalCanvas', croppedCanvas)

\* The effect with dependencies [originalImage, faceDetection, zoomFactor,
\* verticalOffset, horizontalOffset], run after the state change of a step
Effect ==
    croppedCanvas' = UpdateCroppedCanvas(originalImage', faceDetection', zoomFactor',
                                         verticalOffset', horizontalOffset',
                                         originalCanvas', croppedCanvas)

\* await Promise.all([...]) resolved: setIsLoading(false)
loadModels_resolved ==
    /\ loadModels = "pending"
    /\ loadModels' = "done"
    /\ tinyLoaded' = TRUE
    /\ isLoading' = FALSE
    /\ UNCHANGED <<editor, originalImage, faceDetection, originalCanvas,
                   croppedCanvas, pending, lastAlert, downloads, events>>
    /\ UNCHANGED <<offsetVars, cropVars>>

\* catch (err): setError(...); isLoading stays true.  Promise.all rejects as
\* soon as one net fails, whether or not the tiny face detector has loaded.
loadModels_rejected ==
    /\ editor = "offset"
    /\ loadModels = "pending"
    /\ loadModels' = "failed"
    /\ tinyLoaded' \in BOOLEAN
    /\ error' = Msg("Failed to load face detection models.")
    /\ UNCHANGED <<editor, isLoading, originalImage, faceDetection, originalCanvas,
                   croppedCanvas, pending, lastAlert, downloads, events>>
    /\ UNCHANGED <<zoomFactor, verticalOffset, horizontalOffset, cropVars>>

\* One more user event, within the bound of the model
UserEvent == events < MaxEvents /\ events' = events + 1

Upload(file, env) == [file |-> file, stage |-> "load", env |-> env]

\* Mutant: the upload handler forgets setFaceDetection(null)
handleImageUpload_KeepsFace(file) ==
    /\ editor = "offset"
    /\ ~isLoading
    /\ error' = Null
    /\ originalImage' = Null
    /\ verticalOffset' = 0
    /\ horizontalOffset' = 0
    /\ zoomFactor' = DEFAULT_ZOOM_FACTOR
    /\ IF file = NoFile
         THEN pending' = pending
         ELSE /\ Cardinality(pending) < MaxPending
              /\ \A p \in pending : p.file # file
              /\ pending' = pending \cup {Upload(file, Null)}
    /\ UserEvent
    /\ UNCHANGED <<editor, loadModels, tinyLoaded, isLoading, originalCanvas,
                   lastAlert, downloads, cropVars, faceDetection>>
    /\ Effect

\* Mutant: the file input is not disabled while the models load
handleImageUpload_WhileLoading(file) ==
    /\ editor = "offset"
    /\ error' = Null
    /\ faceDetection' = Null
    /\ originalImage' = Null
    /\ verticalOffset' = 0
    /\ horizontalOffset' = 0
    /\ zoomFactor' = DEFAULT_ZOOM_FACTOR
    /\ IF file = NoFile
         THEN pending' = pending
         ELSE /\ Cardinality(pending) < MaxPending
              /\ \A p \in pending : p.file # file
              /\ pending' = pending \cup {Upload(file, Null)}
    /\ UserEvent
    /\ Effect
    /\ UNCHANGED <<editor, loadModels, tinyLoaded, isLoading, originalCanvas,
                   lastAlert, downloads, cropVars>>

\* handleImageUpload up to the point where img.src is set (App.js 177-189).
\* The file input is disabled while isLoading (App.js 398).
handleImageUpload(file) ==
    /\ editor = "offset"
    /\ ~isLoading
    /\ error' = Null
    /\ faceDetection' = Null
    /\ originalImage' = Null
    /\ verticalOffset' = 0
    /\ horizontalOffset' = 0
    /\ zoomFactor' = DEFAULT_ZOOM_FACTOR
    /\ IF file = NoFile
         THEN pending' = pending
         ELSE /\ Cardinality(pending) < MaxPending
              /\ \A p \in pending : p.file # file
              /\ pending' = pending \cup {Upload(file, Null)}
    /\ UserEvent
    /\ Effect
    /\ UNCHANGED <<editor, loadModels, tinyLoaded, isLoading, originalCanvas,
                   lastAlert, downloads, cropVars>>

\* Mutant: && in place of ||
TooSmall_Both(img) == img.width < MIN_IMAGE_RESOLUTION /\ img.height < MIN_IMAGE_RESOLUTION

TooSmall(img) == img.width < MIN_IMAGE_RESOLUTION \/ img.height < MIN_IMAGE_RESOLUTION

\* img.onload up to the await of the detection (App.js 190-212)
img_onload(p) ==
    /\ editor = "offset"
    /\ p \in pending
    /\ p.stage = "load"
    /\ p.file.decodes
    /\ LET img == Image(p.file) IN
         IF TooSmall(img)
           THEN /\ error' = Msg("Image resolution is too low.")
                /\ pending' = pending \ {p}
                /\ UNCHANGED <<originalImage, originalCanvas>>
           ELSE /\ originalImage' = img
                /\ originalCanvas' = [width |-> img.width, height |-> img.height,
                                      image |-> img]
                /\ IF ~tinyLoaded
                     THEN /\ error' = Msg("Face detection model not loaded yet.")
                          /\ pending' = pending \ {p}
                     ELSE /\ error' = error
                          /\ pending' = (pending \ {p}) \cup {[p EXCEPT !.stage = "detect"]}
    /\ UNCHANGED <<faceDetection, zoomFactor, verticalOffset, horizontalOffset>>
    /\ Effect
    /\ UNCHANGED <<editor, loadModels, tinyLoaded, isLoading, lastAlert, downloads,
                   events, cropVars>>

\* img.onerror (App.js 242-244)
img_onerror(p) ==
    /\ editor = "offset"
    /\ p \in pending
    /\ p.stage = "load"
    /\ ~p.file.decodes
    /\ error' = Msg("Error loading image.")
    /\ pending' = pending \ {p}
    /\ UNCHANGED <<editor, loadModels, tinyLoaded, isLoading, originalImage,
                   faceDetection, originalCanvas, croppedCanvas, lastAlert,
                   downloads, events>>
    /\ UNCHANGED <<zoomFactor, verticalOffset, horizontalOffset, cropVars>>

\* The continuation of img.onload after the await (App.js 212-239).  The
\* detector's answer is the one for the image drawn when it was called.
detection_settled(p) ==
    /\ editor = "offset"
    /\ p \in pending
    /\ p.stage = "detect"
    /\ pending' = pending \ {p}
    /\ LET detection == p.file.detect IN
         IF detection = DetectionThrows
           THEN /\ error' = Msg("An error occurred during face detection.")
                /\ UNCHANGED faceDetection
         ELSE IF detection = NoDetection
           THEN /\ error' = Msg("No face detected.")
                /\ UNCHANGED faceDetection
         ELSE IF EyeAngleExceedsTolerance(detection)
           THEN /\ error' = Msg("Please look directly at the camera.")
                /\ UNCHANGED faceDetection
         ELSE /\ faceDetection' = detection
              /\ UNCHANGED error
    /\ UNCHANGED <<originalImage, originalCanvas, zoomFactor, verticalOffset,
                   horizontalOffset>>
    /\ Effect
    /\ UNCHANGED <<editor, loadModels, tinyLoaded, isLoading, lastAlert, downloads,
                   events, cropVars>>

----------------------------------------------------------------------------
(* Offset editor: the controls (App.js 304-387) *)

\* What every control of the offset editor leaves alone
AdjustFrame ==
    /\ UserEvent
    /\ UNCHANGED <<editor, loadModels, tinyLoaded, isLoading, originalImage,
                   faceDetection, originalCanvas, pending, lastAlert, downloads,
                   error, cropVars>>

Min(a, b) == IF a < b THEN a ELSE b
Max(a, b) == IF a > b THEN a ELSE b

\* setZoomFactor(parseFloat(event.target.value))
handleZoomChange(value) ==
    /\ editor = "offset"
    /\ zoomFactor' = value
    /\ UNCHANGED <<verticalOffset, horizontalOffset>>
    /\ AdjustFrame /\ Effect

handleZoomIn ==
    /\ editor = "offset"
    /\ zoomFactor' = RMin(RAdd(zoomFactor, ZOOM_STEP), MAX_ZOOM_FACTOR)
    /\ UNCHANGED <<verticalOffset, horizontalOffset>>
    /\ AdjustFrame /\ Effect

handleZoomOut ==
    /\ editor = "offset"
    /\ zoomFactor' = RMax(RSub(zoomFactor, ZOOM_STEP), MIN_ZOOM_FACTOR)
    /\ UNCHANGED <<verticalOffset, horizontalOffset>>
    /\ AdjustFrame /\ Effect

\* setVerticalOffset(parseInt(event.target.value, 10))
handleVerticalOffsetChange(value) ==
    /\ editor = "offset"
    /\ verticalOffset' = value
    /\ UNCHANGED <<zoomFactor, horizontalOffset>>
    /\ AdjustFrame /\ Effect

handleMoveUp ==
    /\ editor = "offset"
    /\ verticalOffset' = Min(verticalOffset + VERTICAL_STEP, MAX_VERTICAL_OFFSET)
    /\ UNCHANGED <<zoomFactor, horizontalOffset>>
    /\ AdjustFrame /\ Effect

handleMoveDown ==
    /\ editor = "offset"
    /\ verticalOffset' = Max(verticalOffset - VERTICAL_STEP, MIN_VERTICAL_OFFSET)
    /\ UNCHANGED <<zoomFactor, horizontalOffset>>
    /\ AdjustFrame /\ Effect

\* setHorizontalOffset(parseInt(event.target.value, 10))
handleHorizontalOffsetChange(value) ==
    /\ editor = "offset"
    /\ horizontalOffset' = value
    /\ UNCHANGED <<zoomFactor, verticalOffset>>
    /\ AdjustFrame /\ Effect

handleMoveLeft ==
    /\ editor = "offset"
    /\ horizontalOffset' = Min(horizontalOffset + HORIZONTAL_STEP, MAX_HORIZONTAL_OFFSET)
    /\ UNCHANGED <<zoomFactor, verticalOffset>>
    /\ AdjustFrame /\ Effect

handleMoveRight ==
    /\ editor = "offset"
    /\ horizontalOffset' = Max(horizontalOffset - HORIZONTAL_STEP, MIN_HORIZONTAL_OFFSET)
    /\ UNCHANGED <<zoomFactor, verticalOffset>>
    /\ AdjustFrame /\ Effect

\* Mutant: Reset All also drops the detection
handleReset_ClearsDetection ==
    /\ editor = "offset"
    /\ zoomFactor' = DEFAULT_ZOOM_FACTOR
    /\ verticalOffset' = 0
    /\ horizontalOffset' = 0
    /\ faceDetection' = Null
    /\ UserEvent
    /\ UNCHANGED <<editor, loadModels, tinyLoaded, isLoading, originalImage,
                   originalCanvas, pending, lastAlert, downloads, error, cropVars>>
    /\ Effect

\* Mutant: Reset All forgets setZoomFactor(0.2)
handleReset_KeepsZoom ==
    /\ editor = "offset"
    /\ verticalOffset' = 0
    /\ horizontalOffset' = 0
    /\ UNCHANGED zoomFactor
    /\ AdjustFrame /\ Effect

handleReset ==
    /\ editor = "offset"
    /\ zoomFactor' = DEFAULT_ZOOM_FACTOR
    /\ verticalOffset' = 0
    /\ horizontalOffset' = 0
    /\ AdjustFrame /\ Effect

\* calculatedZoom of handleAutoFitHeadSize (App.js 354-366)
calculatedZoom(detection, zoom) ==
    RMin(RMax(HeadScale(detection, zoom), MIN_ZOOM_FACTOR), MAX_ZOOM_FACTOR)

handleAutoFitHeadSize ==
    /\ editor = "offset"
    /\ IF faceDetection = Null \/ originalImage = Null
         THEN UNCHANGED <<zoomFactor, verticalOffset, horizontalOffset>>
         ELSE /\ zoomFactor' = calculatedZoom(faceDetection, zoomFactor)
              /\ verticalOffset' = 0
              /\ horizontalOffset' = 0
    /\ AdjustFrame /\ Effect

\* Mutant: the handler without its faceDetection guard
handleDownload_Unguarded ==
    /\ editor = "offset"
    /\ downloads' = downloads + 1
    /\ UserEvent
    /\ UNCHANGED <<editor, loadModels, tinyLoaded, isLoading, originalImage,
                   faceDetection, originalCanvas, croppedCanvas, pending,
                   lastAlert, offsetVars, cropVars>>

\* handleDownload (App.js 375-387); the handler guards itself, whatever the
\* button's disabled attribute
handleDownload ==
    /\ editor = "offset"
    /\ IF faceDetection = Null
         THEN /\ lastAlert' = Msg("Please upload an image and wait for face detection to complete.")
              /\ UNCHANGED downloads
         ELSE /\ downloads' = downloads + 1
              /\ UNCHANGED lastAlert
    /\ UserEvent
    /\ UNCHANGED <<editor, loadModels, tinyLoaded, isLoading, originalImage,
                   faceDetection, originalCanvas, croppedCanvas, pending,
                   offsetVars, cropVars>>

OffsetUploadStep ==
    \/ \E file \in Files \cup {NoFile} : handleImageUpload(file)
    \/ \E p \in pending : img_onload(p)
    \/ \E p \in pending : img_onerror(p)
    \/ \E p \in pending : detection_settled(p)

OffsetAdjustStep ==
    \/ \E value \in ZoomRequests : handleZoomChange(value)
    \/ handleZoomIn
    \/ handleZoomOut
    \/ \E value \in OffsetRequests : handleVerticalOffsetChange(value)
    \/ handleMoveUp
    \/ handleMoveDown
    \/ \E value \in OffsetRequests : handleHorizontalOffsetChange(value)
    \/ handleMoveLeft
    \/ handleMoveRight
    \/ handleReset
    \/ handleAutoFitHeadSize

NextOffset ==
    \/ loadModels_resolved
    \/ loadModels_rejected
    \/ OffsetUploadStep
    \/ OffsetAdjustStep
    \/ handleDownload

----------------------------------------------------------------------------
(* Crop-region editor (PassportPhotoEditor.js) *)

\* null where a number is expected: falsy, and 0 in arithmetic
NullNum == <<0, -1>>
ToNumber(v) == IF v = NullNum THEN R(0) ELSE v
Truthy(v) == v # NullNum /\ ~IsNaN(v) /\ v # R(0)

\* const aspectRatioPresets (PassportPhotoEditor.js 19-24)
aspectRatioPresets(key) ==
    CASE key = "3:4" -> <<3, 4>>
      [] key = "4:5" -> <<4, 5>>
      [] key = "1:1" -> <<1, 1>>
      [] key = "custom" -> NullNum

\* Texts the custom-ratio number input can hold, and parseFloat of each
CustomRatioInputs == {"", "0", "-1", "2"}
parseFloat(text) ==
    CASE text = "" -> NaN
      [] text = "0" -> R(0)
      [] text = "-1" -> R(-1)
      [] text = "2" -> R(2)

\* isAspectRatioCustom && customAspectRatio ? parseFloat(customAspectRatio)
\*     : aspectRatioPresets[selectedAspectRatioPreset]
currentAspectRatio(isCustom, custom, preset) ==
    IF isCustom /\ custom # "" THEN parseFloat(custom) ELSE aspectRatioPresets(preset)

\* currentAspectRatio ? w / currentAspectRatio : w / aspectRatio
HeightFor(w, current, ratio) ==
    IF Truthy(current) THEN RDiv(w, current) ELSE RDiv(w, ToNumber(ratio))

PPE_passportWidthPx == MmToPx(R(PPE_WIDTH_MM), PPE_DPI)
PPE_passportHeightPx == MmToPx(R(PPE_HEIGHT_MM), PPE_DPI)

\* Mutant: the guide lines drawn before restore(), inside the rotation and zoom
PPE_updateCroppedCanvas_GuidesBeforeRestore(img, detection, region, zoom, angle, guides, source, canvas) ==
    IF img = Null \/ detection = Null THEN canvas
    ELSE
      LET w == PPE_passportWidthPx
          h == PPE_passportHeightPx
      IN  [width |-> w,
           height |-> h,
           draw |-> [source |-> source.image,
                     scale |-> zoom,
                     sx |-> region.x, sy |-> region.y,
                     sw |-> region.width, sh |-> region.height,
                     dx |-> R(0), dy |-> R(0),
                     dw |-> R(w), dh |-> R(h),
                     transform |-> << <<"translate", RDiv(R(w), R(2)), RDiv(R(h), R(2))>>,
                                      <<"rotate", angle>>,
                                      <<"scale", zoom, zoom>>,
                                      <<"translate", RDiv(R(-w), R(2)), RDiv(R(-h), R(2))>>,
                                      <<"drawImage">>
                                   >> \o (IF guides THEN << <<"drawGuides">> >> ELSE <<>>)
                                      \o << <<"restore">> >>,
                     guides |-> guides]]

\* updateCroppedCanvas (PassportPhotoEditor.js 114-149): the canvas after the
\* effect; transform lists the context calls between save() and restore()
PPE_updateCroppedCanvas(img, detection, region, zoom, angle, guides, source, canvas) ==
    IF img = Null \/ detection = Null THEN canvas
    ELSE
      LET w == PPE_passportWidthPx
          h == PPE_passportHeightPx
      IN  [width |-> w,
           height |-> h,
           draw |-> [source |-> source.image,
                     scale |-> zoom,
                     sx |-> region.x, sy |-> region.y,
                     sw |-> region.width, sh |-> region.height,
                     dx |-> R(0), dy |-> R(0),
                     dw |-> R(w), dh |-> R(h),
                     transform |-> << <<"translate", RDiv(R(w), R(2)), RDiv(R(h), R(2))>>,
                                      <<"rotate", angle>>,
                                      <<"scale", zoom, zoom>>,
                                      <<"translate", RDiv(R(-w), R(2)), RDiv(R(-h), R(2))>>,
                                      <<"drawImage">>,
                                      <<"restore">>
                                   >> \o (IF guides THEN << <<"drawGuides">> >> ELSE <<>>),
                     guides |-> guides]]

PPE_Effect ==
    croppedCanvas' = PPE_updateCroppedCanvas(originalImage', faceDetection', cropRegion',
                                             zoomLevel', rotationAngle', showGuides',
                                             originalCanvas', croppedCanvas)

\* catch (err): alert(...); isLoading stays true
PPE_loadModels_rejected ==
    /\ editor = "crop"
    /\ loadModels = "pending"
    /\ loadModels' = "failed"
    /\ tinyLoaded' \in BOOLEAN
    /\ lastAlert' = Msg("Failed to load face detection models.")
    /\ UNCHANGED <<editor, isLoading, originalImage, faceDetection, originalCanvas,
                   croppedCanvas, pending, downloads, events>>
    /\ UNCHANGED <<offsetVars, cropVars>>

\* handleImageUpload up to img.src (PassportPhotoEditor.js 47-58).  img.onload
\* is a closure of this render: it sees the aspect-ratio state of now.
PPE_handleImageUpload(file) ==
    /\ editor = "crop"
    /\ ~isLoading
    /\ faceDetection' = Null
    /\ originalImage' = Null
    /\ cropRegion' = [x |-> R(0), y |-> R(0), width |-> R(0), height |-> R(0)]
    /\ zoomLevel' = R(1)
    /\ rotationAngle' = R(0)
    /\ IF file = NoFile
         THEN pending' = pending
         ELSE /\ Cardinality(pending) < MaxPending
              /\ \A p \in pending : p.file # file
              /\ pending' = pending \cup
                    {Upload(file, [isAspectRatioCustom |-> isAspectRatioCustom,
                                   customAspectRatio |-> customAspectRatio,
                                   selectedAspectRatioPreset |-> selectedAspectRatioPreset,
                                   aspectRatio |-> aspectRatio])}
    /\ UserEvent
    /\ UNCHANGED <<isDragging, resizeHandle, aspectRatio, showGuides,
                   selectedAspectRatioPreset, customAspectRatio, isAspectRatioCustom>>
    /\ UNCHANGED originalCanvas
    /\ PPE_Effect
    /\ UNCHANGED <<editor, loadModels, tinyLoaded, isLoading, lastAlert, downloads,
                   offsetVars>>

PPE_TooSmall(img) == img.width < PPE_MIN_RESOLUTION \/ img.height < PPE_MIN_RESOLUTION

\* img.onload up to the await of the detection (PassportPhotoEditor.js 59-80)
PPE_img_onload(p) ==
    /\ editor = "crop"
    /\ p \in pending
    /\ p.stage = "load"
    /\ p.file.decodes
    /\ LET img == Image(p.file) IN
         IF PPE_TooSmall(img)
           THEN /\ lastAlert' = Msg("Image resolution is too low.")
                /\ pending' = pending \ {p}
                /\ UNCHANGED <<originalImage, originalCanvas>>
           ELSE /\ originalImage' = img
                /\ originalCanvas' = [width |-> img.width, height |-> img.height,
                                      image |-> img]
                /\ IF ~tinyLoaded
                     THEN /\ lastAlert' = Msg("Face detection model not loaded yet.")
                          /\ pending' = pending \ {p}
                     ELSE /\ lastAlert' = lastAlert
                          /\ pending' = (pending \ {p}) \cup {[p EXCEPT !.stage = "detect"]}
    /\ UNCHANGED <<faceDetection, cropVars>>
    /\ PPE_Effect
    /\ UNCHANGED <<editor, loadModels, tinyLoaded, isLoading, downloads, events,
                   offsetVars>>

\* img.onerror (PassportPhotoEditor.js 108-110)
PPE_img_onerror(p) ==
    /\ editor = "crop"
    /\ p \in pending
    /\ p.stage = "load"
    /\ ~p.file.decodes
    /\ lastAlert' = Msg("Error loading image.")
    /\ pending' = pending \ {p}
    /\ UNCHANGED <<editor, loadModels, tinyLoaded, isLoading, originalImage,
                   faceDetection, originalCanvas, croppedCanvas, downloads, events>>
    /\ UNCHANGED <<offsetVars, cropVars>>

\* The initial crop region (PassportPhotoEditor.js 83-100)
InitialCropRegion(detection, img, env) ==
    LET faceBox == detection.box
        eyeLeft == detection.positions[36]
        eyeRight == detection.positions[45]
        eyeMidpointX == RDiv(R(eyeLeft.x + eyeRight.x), R(2))
        eyeMidpointY == RDiv(R(eyeLeft.y + eyeRight.y), R(2))
        cropWidth == RMin(RMul(R(faceBox.width), <<9, 5>>), R(img.width))
        current == currentAspectRatio(env.isAspectRatioCustom, env.customAspectRatio,
                                      env.selectedAspectRatioPreset)
        cropHeight == HeightFor(cropWidth, current, env.aspectRatio)
    IN  [x |-> RMax(R(0), RSub(eyeMidpointX, RDiv(cropWidth, R(2)))),
         y |-> RMax(R(0), RSub(RSub(eyeMidpointY, RDiv(cropHeight, R(2))),
                               RMul(R(faceBox.height), <<1, 5>>))),
         width |-> cropWidth,
         height |-> cropHeight]

\* The continuation of img.onload after the await (PassportPhotoEditor.js
\* 80-105).  There is no try/catch: a rejected detection ends the callback.
PPE_detection_settled(p) ==
    /\ editor = "crop"
    /\ p \in pending
    /\ p.stage = "detect"
    /\ pending' = pending \ {p}
    /\ LET detection == p.file.detect IN
         IF detection = DetectionThrows
           THEN UNCHANGED <<faceDetection, cropRegion, lastAlert>>
         ELSE IF detection = NoDetection
           THEN /\ lastAlert' = Msg("No face detected.")
                /\ UNCHANGED <<faceDetection, cropRegion>>
         ELSE /\ cropRegion' = InitialCropRegion(detection, Image(p.file), p.env)
              /\ faceDetection' = detection
              /\ UNCHANGED lastAlert
    /\ UNCHANGED <<originalImage, originalCanvas, isDragging, resizeHandle, aspectRatio,
                   zoomLevel, rotationAngle, showGuides, selectedAspectRatioPreset,
                   customAspectRatio, isAspectRatioCustom>>
    /\ PPE_Effect
    /\ UNCHANGED <<editor, loadModels, tinyLoaded, isLoading, downloads, events,
                   offsetVars>>

\* What a control of the crop-region editor leaves alone, besides cropVars
PPE_Frame ==
    /\ UserEvent
    /\ UNCHANGED <<editor, loadModels, tinyLoaded, isLoading, originalImage,
                   faceDetection, originalCanvas, pending, lastAlert, downloads,
                   offsetVars>>

resizeHandleSize == 20

\* Mouse positions relative to the original canvas (clientX - rect.left, ...)
MousePoints == {<<300, 240>>, <<480, 480>>, <<670, 720>>, <<900, 1100>>}

\* handleMouseDown (PassportPhotoEditor.js 176-196)
PPE_handleMouseDown(mouseX, mouseY) ==
    /\ editor = "crop"
    /\ LET x == cropRegion.x
           y == cropRegion.y
           right == RAdd(cropRegion.x, cropRegion.width)
           bottom == RAdd(cropRegion.y, cropRegion.height)
           size == R(resizeHandleSize)
       IN  IF faceDetection = Null
             THEN UNCHANGED <<resizeHandle, isDragging>>
           ELSE IF /\ RGt(R(mouseX), RSub(right, size))
                   /\ RLt(R(mouseX), RAdd(right, size))
                   /\ RGt(R(mouseY), RSub(bottom, size))
                   /\ RLt(R(mouseY), RAdd(bottom, size))
             THEN resizeHandle' = "bottom-right" /\ UNCHANGED isDragging
           ELSE IF /\ RGt(R(mouseX), x) /\ RLt(R(mouseX), right)
                   /\ RGt(R(mouseY), y) /\ RLt(R(mouseY), bottom)
             THEN isDragging' = TRUE /\ UNCHANGED resizeHandle
           ELSE UNCHANGED <<resizeHandle, isDragging>>
    /\ UNCHANGED <<cropRegion, aspectRatio, zoomLevel, rotationAngle, showGuides,
                   selectedAspectRatioPreset, customAspectRatio, isAspectRatioCustom>>
    /\ PPE_Frame /\ PPE_Effect

\* The resize branch of handleMouseMove (PassportPhotoEditor.js 215-236)
ResizedRegion(region, mouseX, img, current, ratio) ==
    LET x == region.x
        y == region.y
        imgW == R(img.width)
        imgH == R(img.height)
        w0 == RMax(R(50), RSub(R(mouseX), x))
        h0 == HeightFor(w0, current, ratio)
        over1 == RGt(RAdd(x, w0), imgW)
        w1 == IF over1 THEN RSub(imgW, x) ELSE w0
        h1 == IF over1 THEN HeightFor(w1, current, ratio) ELSE h0
        over2 == RGt(RAdd(y, h1), imgH)
        h2 == IF over2 THEN RSub(imgH, y) ELSE h1
        w2a == IF Truthy(current) THEN RMul(h2, current) ELSE RMul(h2, ToNumber(ratio))
        w2 == IF ~over2 THEN w1
              ELSE IF RGt(RAdd(x, w2a), imgW) THEN RSub(imgW, x) ELSE w2a
    IN  [x |-> x, y |-> y, width |-> w2, height |-> h2]

\* The drag branch of handleMouseMove (PassportPhotoEditor.js 208-214)
DraggedRegion(region, mouseX, mouseY, img) ==
    [x |-> RMax(R(0), RMin(RSub(R(mouseX), RDiv(region.width, R(2))),
                           RSub(R(img.width), region.width))),
     y |-> RMax(R(0), RMin(RSub(R(mouseY), RDiv(region.height, R(2))),
                           RSub(R(img.height), region.height))),
     width |-> region.width,
     height |-> region.height]

\* handleMouseMove (PassportPhotoEditor.js 198-238)
PPE_handleMouseMove(mouseX, mouseY) ==
    /\ editor = "crop"
    /\ IF (~isDragging /\ resizeHandle = NoHandle) \/ originalImage = Null
         THEN UNCHANGED cropRegion
       ELSE IF isDragging
         THEN cropRegion' = DraggedRegion(cropRegion, mouseX, mouseY, originalImage)
       ELSE IF resizeHandle = "bottom-right"
         THEN cropRegion' = ResizedRegion(cropRegion, mouseX, originalImage,
                               currentAspectRatio(isAspectRatioCustom, customAspectRatio,
                                                  selectedAspectRatioPreset),
                               aspectRatio)
       ELSE UNCHANGED cropRegion
    /\ UNCHANGED <<isDragging, resizeHandle, aspectRatio, zoomLevel, rotationAngle,
                   showGuides, selectedAspectRatioPreset, customAspectRatio,
                   isAspectRatioCustom>>
    /\ PPE_Frame /\ PPE_Effect

\* handleMouseUp, also the onMouseLeave handler (PassportPhotoEditor.js 240-243)
PPE_handleMouseUp ==
    /\ editor = "crop"
    /\ isDragging' = FALSE
    /\ resizeHandle' = NoHandle
    /\ UNCHANGED <<cropRegion, aspectRatio, zoomLevel, rotationAngle, showGuides,
                   selectedAspectRatioPreset, customAspectRatio, isAspectRatioCustom>>
    /\ PPE_Frame /\ PPE_Effect

\* Values the zoom and rotation sliders can carry
ZoomLevelRequests == {<<1, 2>>, <<2, 1>>}
RotationRequests == {<<-10, 1>>, <<10, 1>>}

PPE_handleZoomChange(value) ==
    /\ editor = "crop"
    /\ zoomLevel' = value
    /\ UNCHANGED <<cropRegion, isDragging, resizeHandle, aspectRatio, rotationAngle,
                   showGuides, selectedAspectRatioPreset, customAspectRatio,
                   isAspectRatioCustom>>
    /\ PPE_Frame /\ PPE_Effect

PPE_handleRotationChange(value) ==
    /\ editor = "crop"
    /\ rotationAngle' = value
    /\ UNCHANGED <<cropRegion, isDragging, resizeHandle, aspectRatio, zoomLevel,
                   showGuides, selectedAspectRatioPreset, customAspectRatio,
                   isAspectRatioCustom>>
    /\ PPE_Frame /\ PPE_Effect

PPE_handleToggleGuides ==
    /\ editor = "crop"
    /\ showGuides' = ~showGuides
    /\ UNCHANGED <<cropRegion, isDragging, resizeHandle, aspectRatio, zoomLevel,
                   rotationAngle, selectedAspectRatioPreset, customAspectRatio,
                   isAspectRatioCustom>>
    /\ PPE_Frame /\ PPE_Effect

\* handleAspectRatioPresetChange (PassportPhotoEditor.js 257-263)
PPE_handleAspectRatioPresetChange(value) ==
    /\ editor = "crop"
    /\ selectedAspectRatioPreset' = value
    /\ isAspectRatioCustom' = (value = "custom")
    /\ aspectRatio' = IF value # "custom" THEN aspectRatioPresets(value) ELSE aspectRatio
    /\ UNCHANGED <<cropRegion, isDragging, resizeHandle, zoomLevel, rotationAngle,
                   showGuides, customAspectRatio>>
    /\ PPE_Frame /\ PPE_Effect

\* handleCustomAspectRatioChange (PassportPhotoEditor.js 265-272).  The input
\* exists only while the preset is 'custom' and is disabled unless
\* isAspectRatioCustom (lines 319-330).
PPE_handleCustomAspectRatioChange(value) ==
    /\ editor = "crop"
    /\ selectedAspectRatioPreset = "custom"
    /\ isAspectRatioCustom
    /\ customAspectRatio' = value
    /\ aspectRatio' = IF isAspectRatioCustom /\ value # "" THEN parseFloat(value)
                      ELSE IF ~isAspectRatioCustom
                        THEN aspectRatioPresets(selectedAspectRatioPreset)
                      ELSE aspectRatio
    /\ UNCHANGED <<cropRegion, isDragging, resizeHandle, zoomLevel, rotationAngle,
                   showGuides, selectedAspectRatioPreset, isAspectRatioCustom>>
    /\ PPE_Frame /\ PPE_Effect

\* handleCustomAspectRatioCheckboxChange (PassportPhotoEditor.js 273-280); the
\* checkbox exists only while the preset is 'custom'
PPE_handleCustomAspectRatioCheckboxChange(checked) ==
    /\ editor = "crop"
    /\ selectedAspectRatioPreset = "custom"
    /\ checked = ~isAspectRatioCustom
    /\ isAspectRatioCustom' = checked
    /\ aspectRatio' = IF checked /\ customAspectRatio # "" THEN parseFloat(customAspectRatio)
                      ELSE IF ~checked THEN aspectRatioPresets(selectedAspectRatioPreset)
                      ELSE aspectRatio
    /\ UNCHANGED <<cropRegion, isDragging, resizeHandle, zoomLevel, rotationAngle,
                   showGuides, selectedAspectRatioPreset, customAspectRatio>>
    /\ PPE_Frame /\ PPE_Effect

\* handleDownload (PassportPhotoEditor.js 284-296)
PPE_handleDownload(format) ==
    /\ editor = "crop"
    /\ IF faceDetection = Null \/ isLoading
         THEN /\ lastAlert' = Msg("Please upload an image and wait for face detection to complete.")
              /\ UNCHANGED downloads
         ELSE /\ downloads' = downloads + 1
              /\ UNCHANGED lastAlert
    /\ UserEvent
    /\ UNCHANGED <<editor, loadModels, tinyLoaded, isLoading, originalImage,
                   faceDetection, originalCanvas, croppedCanvas, pending,
                   offsetVars, cropVars>>

CropUploadStep ==
    \/ \E file \in Files \cup {NoFile} : PPE_handleImageUpload(file)
    \/ \E p \in pending : PPE_img_onload(p)
    \/ \E p \in pending : PPE_img_onerror(p)
    \/ \E p \in pending : PPE_detection_settled(p)

CropAdjustStep ==
    \/ \E m \in MousePoints : PPE_handleMouseDown(m[1], m[2])
    \/ \E m \in MousePoints : PPE_handleMouseMove(m[1], m[2])
    \/ PPE_handleMouseUp
    \/ \E value \in ZoomLevelRequests : PPE_handleZoomChange(value)
    \/ \E value \in RotationRequests : PPE_handleRotationChange(value)
    \/ PPE_handleToggleGuides
    \/ \E value \in {"3:4", "4:5", "1:1", "custom"} : PPE_handleAspectRatioPresetChange(value)
    \/ \E value \in CustomRatioInputs : PPE_handleCustomAspectRatioChange(value)
    \/ \E checked \in BOOLEAN : PPE_handleCustomAspectRatioCheckboxChange(checked)

NextCrop ==
    \/ loadModels_resolved
    \/ PPE_loadModels_rejected
    \/ CropUploadStep
    \/ CropAdjustStep
    \/ \E format \in {"jpeg", "png"} : PPE_handleDownload(format)

Next == NextOffset \/ NextCrop

Spec == Init /\ [][Next]_vars

\* The offset editor when no upload begins while another is in flight
SeqUploadStep ==
    \/ \E file \in Files \cup {NoFile} : pending = {} /\ handleImageUpload(file)
    \/ \E p \in pending : img_onload(p)
    \/ \E p \in pending : img_onerror(p)
    \/ \E p \in pending : detection_settled(p)

NextSeq ==
    \/ loadModels_resolved
    \/ loadModels_rejected
    \/ SeqUploadStep
    \/ OffsetAdjustStep
    \/ handleDownload

InitOffset == Init /\ editor = "offset"

SpecSeq == InitOffset /\ [][NextSeq]_vars

----------------------------------------------------------------------------
(* Properties *)

Rendered == originalImage # Null /\ faceDetection # Null
FreshCanvas == [width |-> CANVAS_DEFAULT_WIDTH, height |-> CANVAS_DEFAULT_HEIGHT,
                draw |-> Null]

\* C1: whenever the cropped canvas is rendered (an image and a detected face
\* are both stored) it is round(35/25.4*dpi) x round(45/25.4*dpi) pixels:
\* 827 x 1063 in the offset editor (600 DPI), 413 x 531 in the crop-region
\* editor (300 DPI), whatever the image size and the parameters.
C1_CanvasDimensions ==
    Rendered =>
        IF editor = "offset"
          THEN /\ croppedCanvas.width = 827 /\ croppedCanvas.height = 1063
               /\ croppedCanvas.width = Round(35 * 6000, 254)
               /\ croppedCanvas.height = Round(45 * 6000, 254)
          ELSE /\ croppedCanvas.width = 413 /\ croppedCanvas.height = 531
               /\ croppedCanvas.width = Round(35 * 3000, 254)
               /\ croppedCanvas.height = Round(45 * 3000, 254)

C1_Witness ==
    /\ editor = "offset"
    /\ Rendered
    /\ originalImage.width = 800 /\ originalImage.height = 1000
    /\ zoomFactor # DEFAULT_ZOOM_FACTOR
    /\ croppedCanvas.width = 827

\* C2: in the offset editor the scale of the rendered canvas equals
\* targetHeadHeightPx / (chin.y - topOfHead.y), with targetHeadHeightPx =
\* (756 + 850) / 2 = 803 and topOfHead = getTopOfHead(face, current zoom).
C2_ScaleFormula ==
    (editor = "offset" /\ Rendered) =>
        LET chin == faceDetection.positions[8]
            topOfHead == getTopOfHead(faceDetection, zoomFactor)
            target == RDiv(R(Round(32 * 6000, 254) + Round(36 * 6000, 254)), R(2))
        IN  /\ target = R(803)
            /\ croppedCanvas.draw.scale = RDiv(target, RSub(R(chin.y), topOfHead.y))

C2_Witness ==
    /\ editor = "offset"
    /\ Rendered
    /\ faceDetection = FaceB
    /\ zoomFactor = <<21, 100>>
    /\ croppedCanvas.draw.scale = <<803, 470>>

\* C3 (as claimed): in the offset editor both offsets stay within [-50, 50]
C3_OffsetsClamped ==
    editor = "offset" =>
        /\ MIN_VERTICAL_OFFSET <= verticalOffset /\ verticalOffset <= MAX_VERTICAL_OFFSET
        /\ MIN_HORIZONTAL_OFFSET <= horizontalOffset
        /\ horizontalOffset <= MAX_HORIZONTAL_OFFSET

\* C4: the rendered canvas is a function of the stored face, the stored image
\* and the current parameters alone: after any history it is what one render
\* of a fresh canvas with the current state gives; so two states with the same
\* detection and unadjusted parameters hold the same transform.
C4_TransformDeterministic ==
    Rendered =>
        IF editor = "offset"
          THEN croppedCanvas = UpdateCroppedCanvas(originalImage, faceDetection, zoomFactor,
                                   verticalOffset, horizontalOffset, originalCanvas,
                                   FreshCanvas)
          ELSE croppedCanvas = PPE_updateCroppedCanvas(originalImage, faceDetection,
                                   cropRegion, zoomLevel, rotationAngle, showGuides,
                                   originalCanvas, FreshCanvas)

C4_Witness ==
    /\ editor = "offset"
    /\ Rendered
    /\ events = MaxEvents
    /\ zoomFactor = DEFAULT_ZOOM_FACTOR /\ verticalOffset = 0 /\ horizontalOffset = 0
    /\ croppedCanvas.draw.scale = <<803, 320>>
    /\ croppedCanvas.draw.dy = RSub(R(83), RMul(R(100), <<803, 320>>))

\* C5 (as claimed): a detection whose eye line is tilted by more than 10
\* degrees is never stored as the detected face
C5_TiltedNeverAccepted ==
    faceDetection # Null => ~EyeAngleExceedsTolerance(faceDetection)

\* C6: an image narrower or shorter than 600 pixels is never stored as the
\* original image, never drawn to the original canvas and never handed to the
\* detector
C6_LowResolutionRejected ==
    /\ originalImage # Null => originalImage.width >= 600 /\ originalImage.height >= 600
    /\ originalCanvas.image # Null =>
          /\ originalCanvas.image.width >= 600
          /\ originalCanvas.image.height >= 600
    /\ \A p \in pending :
          p.stage = "detect" => p.file.width >= 600 /\ p.file.height >= 600

C6_Witness ==
    /\ editor = "offset"
    /\ error = Msg("Image resolution is too low.")
    /\ originalImage = Null
    /\ originalCanvas.image # Null
    /\ originalCanvas.image.width = 600 /\ originalCanvas.image.height = 600

\* C7: with uploads that do not overlap, a step that ends an upload without a
\* stored face ends with the error set, and whenever the error is set no face
\* is stored and no load or detection is in flight
C7_FailedUploadReported ==
    [][ /\ (pending # {} /\ pending' = {} /\ faceDetection' = Null) => error' # Null
        /\ error' # Null => (faceDetection' = Null /\ pending' = {}) ]_vars

C7_Witness ==
    /\ error = Msg("Please look directly at the camera.")
    /\ faceDetection = Null
    /\ originalImage # Null
    /\ pending = {}

\* C8: a file is downloaded only from a state with a stored face and, in the
\* crop-region editor, with model loading finished
C8_DownloadNeedsFace ==
    [][ downloads' # downloads =>
          (faceDetection # Null /\ (editor = "crop" => ~isLoading)) ]_vars

C8_Witness == editor = "crop" /\ downloads > 0 /\ faceDetection # Null

\* C9: no control and no download changes the stored face or the stored image
C9_AdjustmentsKeepDetection ==
    [][ (\/ OffsetAdjustStep
         \/ handleDownload
         \/ CropAdjustStep
         \/ \E format \in {"jpeg", "png"} : PPE_handleDownload(format))
        => UNCHANGED <<faceDetection, originalImage>> ]_vars

C9_Witness ==
    /\ editor = "offset"
    /\ faceDetection # Null
    /\ zoomFactor = <<2, 5>>
    /\ verticalOffset = 1

\* C10 (as claimed): in the offset editor zoomFactor stays within [0, 0.4]
C10_ZoomClamped ==
    editor = "offset" =>
        RLe(MIN_ZOOM_FACTOR, zoomFactor) /\ RLe(zoomFactor, MAX_ZOOM_FACTOR)

----------------------------------------------------------------------------
(* The geometry of the offset editor over a wider set of detections:      *)
(* the editor right after a successful upload, at any zoom the Zoom In    *)
(* and Zoom Out buttons reach, followed by its controls.                  *)

\* bounding box reaching above the image's top edge
FaceHigh == Detection(Box(220, -30, 260, 330), Pt(350, 290), Pt(350, 150),
                      Pt(290, 90), Pt(380, 92), Pt(410, 92))
\* a close-up in a 12-megapixel photo
FaceLarge == Detection(Box(300, 1300, 2409, 2409), Pt(1500, 3709), Pt(1500, 2600),
                       Pt(1000, 2200), Pt(1700, 2200), Pt(2000, 2200))

GeomFiles == {
    File("a.jpg", TRUE, 600, 600, FaceA),
    File("b.jpg", TRUE, 800, 1000, FaceB),
    File("high.jpg", TRUE, 700, 900, FaceHigh),
    File("large.jpg", TRUE, 3000, 4000, FaceLarge) }

GeomZooms == {<<0, 1>>, <<1, 5>>, <<2, 5>>}

InitGeom ==
    /\ editor = "offset"
    /\ loadModels = "done"
    /\ tinyLoaded = TRUE
    /\ isLoading = FALSE
    /\ \E file \in GeomFiles :
          /\ originalImage = Image(file)
          /\ faceDetection = file.detect
          /\ originalCanvas = [width |-> file.width, height |-> file.height,
                               image |-> Image(file)]
    /\ error = Null
    /\ zoomFactor \in GeomZooms
    /\ verticalOffset = 0
    /\ horizontalOffset = 0
    /\ cropRegion = [x |-> R(0), y |-> R(0), width |-> R(0), height |-> R(0)]
    /\ isDragging = FALSE
    /\ resizeHandle = NoHandle
    /\ aspectRatio = <<3, 4>>
    /\ zoomLevel = R(1)
    /\ rotationAngle = R(0)
    /\ showGuides = TRUE
    /\ selectedAspectRatioPreset = "3:4"
    /\ customAspectRatio = ""
    /\ isAspectRatioCustom = FALSE
    /\ croppedCanvas = UpdateCroppedCanvas(originalImage, faceDetection, zoomFactor,
                                           verticalOffset, horizontalOffset,
                                           originalCanvas, FreshCanvas)
    /\ pending = {}
    /\ lastAlert = Null
    /\ downloads = 0
    /\ events = 0

NextGeom ==
    \/ OffsetAdjustStep
    \/ handleDownload

SpecGeom == InitGeom /\ [][NextGeom]_vars

\* C11: in the offset editor, for a zoom factor in [0, 0.4] and a face whose
\* chin lies below the top edge of its box (chin.y > max(0, box.y)), the head
\* top max(0, box.y - box.height * zoom) is strictly above the chin, the scale is
\* positive and finite, and the rendered head height (chin.y - head top) * scale
\* is 803, the midpoint of [756, 850].
C11_HeadHeightOnTarget ==
    (/\ editor = "offset" /\ Rendered
     /\ RLe(R(0), zoomFactor) /\ RLe(zoomFactor, <<2, 5>>)
     /\ faceDetection.positions[8].y > Max(0, faceDetection.box.y)) =>
        LET chinY == R(faceDetection.positions[8].y)
            box == faceDetection.box
            headTopY == RMax(R(0), RSub(R(box.y), RMul(R(box.height), zoomFactor)))
            scale == croppedCanvas.draw.scale
            rendered == RMul(RSub(chinY, headTopY), scale)
        IN  /\ RLt(headTopY, chinY)
            /\ IsFinite(scale) /\ RGt(scale, R(0))
            /\ rendered = RDiv(R(756 + 850), R(2))
            /\ RLe(R(Round(32 * 6000, 254)), rendered)
            /\ RLe(rendered, R(Round(36 * 6000, 254)))

C11_Witness ==
    /\ editor = "offset" /\ Rendered
    /\ faceDetection = FaceHigh
    /\ zoomFactor = <<1, 100>>
    /\ croppedCanvas.draw.scale = <<803, 290>>

\* C12: in the offset editor's render the head top max(0, box.y - box.height *
\* zoom) is drawn at row topMarginPx + verticalOffset, with topMarginPx =
\* round(3.5 / 25.4 * 600) = 83, and the horizontal centre of the face box at
\* column passportWidthPx / 2 + horizontalOffset = 827 / 2 + horizontalOffset;
\* with both offsets 0, on the margin row and the canvas's centre column.
C12_HeadTopOnMargin ==
    (editor = "offset" /\ Rendered) =>
        LET box == faceDetection.box
            headTopY == RMax(R(0), RSub(R(box.y), RMul(R(box.height), zoomFactor)))
            faceCenterX == RAdd(R(box.x), RDiv(R(box.width), R(2)))
            draw == croppedCanvas.draw
            row == RAdd(draw.dy, RMul(headTopY, draw.scale))
            column == RAdd(draw.dx, RMul(faceCenterX, draw.scale))
        IN  /\ Round(35 * 600, 254) = 83
            /\ row = R(83 + verticalOffset)
            /\ column = RAdd(RDiv(R(croppedCanvas.width), R(2)), R(horizontalOffset))
            /\ (verticalOffset = 0 /\ horizontalOffset = 0) =>
                  (row = R(83) /\ column = <<827, 2>>)

C12_Witness ==
    /\ editor = "offset" /\ Rendered
    /\ faceDetection = FaceLarge
    /\ verticalOffset = -50
    /\ horizontalOffset = 1
    /\ RAdd(croppedCanvas.draw.dy,
            RMul(getTopOfHead(faceDetection, zoomFactor).y, croppedCanvas.draw.scale)) = R(33)
    /\ RLt(croppedCanvas.draw.dy, R(0))

\* C13 (as claimed): every render scales the source uniformly: destination
\* width / source width = destination height / source height, in both editors
C13_UniformScale ==
    Rendered =>
        LET draw == croppedCanvas.draw
        IN  RDiv(draw.dw, draw.sw) = RDiv(draw.dh, draw.sh)

----------------------------------------------------------------------------
(* The 2D context's transformation matrix [a b c d e f]: a point (x, y) of *)
(* user space is drawn at (a x + c y + e, b x + d y + f).  translate,      *)
(* rotate and scale multiply the current matrix on the right.              *)

Matrix(a, b, c, d, e, f) == [a |-> a, b |-> b, c |-> c, d |-> d, e |-> e, f |-> f]
Identity == Matrix(R(1), R(0), R(0), R(1), R(0), R(0))

MatMul(m, n) ==
    Matrix(RAdd(RMul(m.a, n.a), RMul(m.c, n.b)),
           RAdd(RMul(m.b, n.a), RMul(m.d, n.b)),
           RAdd(RMul(m.a, n.c), RMul(m.c, n.d)),
           RAdd(RMul(m.b, n.c), RMul(m.d, n.d)),
           RAdd(RAdd(RMul(m.a, n.e), RMul(m.c, n.f)), m.e),
           RAdd(RAdd(RMul(m.b, n.e), RMul(m.d, n.f)), m.f))

Apply(m, p) ==
    <<RAdd(RAdd(RMul(m.a, p[1]), RMul(m.c, p[2])), m.e),
      RAdd(RAdd(RMul(m.b, p[1]), RMul(m.d, p[2])), m.f)>>

\* cos and sin of rotationAngle * Math.PI / 180 to six decimals, for the angles
\* of the model
CosDeg(angle) ==
    CASE angle = R(0) -> R(1)
      [] angle = R(10) -> <<984808, 1000000>>
      [] angle = R(-10) -> <<984808, 1000000>>
SinDeg(angle) ==
    CASE angle = R(0) -> R(0)
      [] angle = R(10) -> <<173648, 1000000>>
      [] angle = R(-10) -> <<-173648, 1000000>>

\* The matrix after one context call
Transformed(ctm, call) ==
    CASE call[1] = "translate" -> MatMul(ctm, Matrix(R(1), R(0), R(0), R(1), call[2], call[3]))
      [] call[1] = "rotate" ->
            MatMul(ctm, Matrix(CosDeg(call[2]), SinDeg(call[2]),
                               RNeg(SinDeg(call[2])), CosDeg(call[2]), R(0), R(0)))
      [] call[1] = "scale" -> MatMul(ctm, Matrix(call[2], R(0), R(0), call[3], R(0), R(0)))
      [] call[1] = "restore" -> Identity   \* save() was called on the fresh context
      [] OTHER -> ctm

\* The matrices in force at drawImage and at drawGuides when the calls of
\* transform run in order from call i, the matrix being ctm before it
RECURSIVE Replay(_, _, _, _)
Replay(transform, i, ctm, seen) ==
    IF i > Len(transform) THEN seen
    ELSE LET call == transform[i]
             now == IF call[1] = "drawImage" THEN [seen EXCEPT !.image = ctm]
                    ELSE IF call[1] = "drawGuides" THEN [seen EXCEPT !.guides = ctm]
                    ELSE seen
         IN  Replay(transform, i + 1, Transformed(ctm, call), now)

\* C14: in the crop-region editor's render the calls run in the order
\* translate(W/2, H/2), rotate(angle), scale(zoom, zoom), translate(-W/2, -H/2),
\* drawImage, restore and only then drawGuides (when guides are shown); the
\* image's matrix leaves the canvas centre (413/2, 531/2) where it is, and the
\* guide lines are drawn under the identity matrix.
C14_TransformOrder ==
    (editor = "crop" /\ Rendered) =>
        LET t == croppedCanvas.draw.transform
            center == <<RDiv(R(413), R(2)), RDiv(R(531), R(2))>>
            seen == Replay(t, 1, Identity, [image |-> Null, guides |-> Null])
        IN  /\ Len(t) = IF showGuides THEN 7 ELSE 6
            /\ t[1] = <<"translate", center[1], center[2]>>
            /\ t[2] = <<"rotate", rotationAngle>>
            /\ t[3] = <<"scale", zoomLevel, zoomLevel>>
            /\ t[4] = <<"translate", RNeg(center[1]), RNeg(center[2])>>
            /\ t[5] = <<"drawImage">>
            /\ t[6] = <<"restore">>
            /\ showGuides => t[7] = <<"drawGuides">>
            /\ seen.image # Null
            /\ Apply(seen.image, center) = center
            /\ showGuides => seen.guides = Identity

C14_Witness ==
    /\ editor = "crop" /\ Rendered
    /\ rotationAngle = R(10)
    /\ zoomLevel = R(2)
    /\ showGuides
    /\ LET seen == Replay(croppedCanvas.draw.transform, 1, Identity,
                          [image |-> Null, guides |-> Null])
       IN  /\ Apply(seen.image, <<R(0), R(0)>>) # <<R(0), R(0)>>
           /\ seen.guides = Identity

\* C15: right after handleImageUpload (with or without a file, before any
\* load or detection outcome) and right after handleReset the offset editor's
\* parameters are zoomFactor = 0.2, verticalOffset = 0, horizontalOffset = 0;
\* handleImageUpload also clears error, faceDetection and originalImage, and
\* handleReset leaves these three as they are.
C15_DefaultsAfterUploadAndReset ==
    [][ /\ (\E file \in Files \cup {NoFile} : handleImageUpload(file)) =>
              /\ zoomFactor' = <<1, 5>>
              /\ verticalOffset' = 0 /\ horizontalOffset' = 0
              /\ error' = Null /\ faceDetection' = Null /\ originalImage' = Null
        /\ handleReset =>
              /\ zoomFactor' = <<1, 5>>
              /\ verticalOffset' = 0 /\ horizontalOffset' = 0
              /\ UNCHANGED <<error, faceDetection, originalImage>> ]_vars

\* a state only handleImageUpload leaves behind: an earlier image is still on
\* the original canvas while image, face and error are cleared and nothing is
\* in flight (no file was chosen the second time)
C15_Witness ==
    /\ editor = "offset"
    /\ originalCanvas.image # Null
    /\ originalImage = Null /\ faceDetection = Null /\ error = Null
    /\ pending = {}
    /\ zoomFactor = <<1, 5>> /\ verticalOffset = 0 /\ horizontalOffset = 0

----------------------------------------------------------------------------
(* The crop-region editor right after a successful upload, under the      *)
(* aspect-ratio settings its three handlers reach, followed by its        *)
(* controls.                                                              *)

\* a face close to the right edge of a 600 x 600 image
FaceEdge == Detection(Box(380, 150, 200, 250), Pt(480, 420), Pt(480, 300),
                      Pt(430, 240), Pt(500, 240), Pt(540, 240))

CropFiles == {
    File("a.jpg", TRUE, 600, 600, FaceA),
    File("b.jpg", TRUE, 800, 1000, FaceB),
    File("edge.jpg", TRUE, 600, 600, FaceEdge) }

AspectState(preset, isCustom, custom, ratio) ==
    [selectedAspectRatioPreset |-> preset, isAspectRatioCustom |-> isCustom,
     customAspectRatio |-> custom, aspectRatio |-> ratio]

\* the settings of the first render
DefaultAspect == AspectState("3:4", FALSE, "", <<3, 4>>)

AspectStates == {
    DefaultAspect,
    AspectState("1:1", FALSE, "", <<1, 1>>),      \* preset 1:1
    AspectState("custom", TRUE, "", <<3, 4>>),    \* preset Custom, nothing typed
    AspectState("custom", TRUE, "2", <<2, 1>>),   \* ... then 2 typed
    AspectState("custom", TRUE, "0", <<0, 1>>),   \* ... or 0
    AspectState("custom", TRUE, "-1", <<-1, 1>>), \* ... or -1
    AspectState("custom", FALSE, "", NullNum) }   \* preset Custom, box unticked

\* The settings are either those of the upload (chosen before it) or the
\* defaults (the settings were changed after the face was detected).
InitCrop ==
    /\ editor = "crop"
    /\ loadModels = "done"
    /\ tinyLoaded = TRUE
    /\ isLoading = FALSE
    /\ error = Null
    /\ zoomFactor = DEFAULT_ZOOM_FACTOR
    /\ verticalOffset = 0
    /\ horizontalOffset = 0
    /\ isDragging = FALSE
    /\ resizeHandle = NoHandle
    /\ zoomLevel = R(1)
    /\ rotationAngle = R(0)
    /\ showGuides = TRUE
    /\ \E now \in AspectStates :
          /\ selectedAspectRatioPreset = now.selectedAspectRatioPreset
          /\ isAspectRatioCustom = now.isAspectRatioCustom
          /\ customAspectRatio = now.customAspectRatio
          /\ aspectRatio = now.aspectRatio
          /\ \E file \in CropFiles, env \in {now, DefaultAspect} :
                /\ originalImage = Image(file)
                /\ faceDetection = file.detect
                /\ originalCanvas = [width |-> file.width, height |-> file.height,
                                     image |-> Image(file)]
                /\ cropRegion = InitialCropRegion(file.detect, Image(file), env)
    /\ croppedCanvas = PPE_updateCroppedCanvas(originalImage, faceDetection, cropRegion,
                                               zoomLevel, rotationAngle, showGuides,
                                               originalCanvas, FreshCanvas)
    /\ pending = {}
    /\ lastAlert = Null
    /\ downloads = 0
    /\ events = 0

NextCropControls ==
    \/ CropAdjustStep
    \/ \E format \in {"jpeg", "png"} : PPE_handleDownload(format)

SpecCrop == InitCrop /\ [][NextCropControls]_vars

\* A step of handleMouseMove in resize mode, from a region that starts inside
\* the image
ResizeStep ==
    /\ editor = "crop"
    /\ ~isDragging /\ resizeHandle = "bottom-right" /\ originalImage # Null
    /\ RLt(cropRegion.x, R(originalImage.width))
    /\ RLt(cropRegion.y, R(originalImage.height))
    /\ \E m \in MousePoints : PPE_handleMouseMove(m[1], m[2])

\* C16 (as claimed): after a bottom-right resize the region's width / height
\* is the current aspect ratio: the custom ratio when enabled, otherwise the
\* selected preset
C16_ResizeKeepsAspectRatio ==
    [][ ResizeStep =>
          RDiv(cropRegion'.width, cropRegion'.height) =
              currentAspectRatio(isAspectRatioCustom, customAspectRatio,
                                 selectedAspectRatioPreset) ]_vars

\* C17 (as claimed): a stored face belongs to the stored image: faceDetection
\* non-null implies originalImage is non-null and is the image the detection
\* was computed on, and in the offset editor no error message is displayed
C17_FaceBelongsToImage ==
    faceDetection # Null =>
        /\ originalImage # Null
        /\ FileOf(originalImage).detect = faceDetection
        /\ editor = "offset" => error = Null

\* C18 (as claimed): in the crop-region editor, whenever a face is stored the
\* crop region is non-degenerate and inside the original image: x >= 0,
\* y >= 0, width > 0, height > 0, x + width <= image width, y + height <=
\* image height
C18_CropRegionInsideImage ==
    (editor = "crop" /\ Rendered) =>
        /\ RLe(R(0), cropRegion.x)
        /\ RLe(R(0), cropRegion.y)
        /\ RGt(cropRegion.width, R(0))
        /\ RGt(cropRegion.height, R(0))
        /\ RLe(RAdd(cropRegion.x, cropRegion.width), R(originalImage.width))
        /\ RLe(RAdd(cropRegion.y, cropRegion.height), R(originalImage.height))

\* C19: an upload begins only after the models have loaded, so no upload is in
\* flight while isLoading and the "model not loaded yet" branch is never
\* taken; once model loading has failed it stays failed and isLoading stays
\* true, no upload or detection is in flight and no image or face is stored
C19_UploadOnlyAfterModelsLoaded ==
    /\ [](/\ error # Msg("Face detection model not loaded yet.")
          /\ lastAlert # Msg("Face detection model not loaded yet.")
          /\ pending # {} => ~isLoading /\ tinyLoaded
          /\ isLoading => originalImage = Null /\ faceDetection = Null
          /\ loadModels = "failed" =>
                /\ isLoading
                /\ pending = {}
                /\ originalImage = Null
                /\ faceDetection = Null)
    /\ [][/\ loadModels = "failed" => loadModels' = "failed" /\ isLoading'
          /\ pending' # pending /\ pending \subseteq pending' =>
                ~isLoading /\ loadModels = "done"]_vars

\* Model loading has failed in the offset editor: the failure is displayed,
\* isLoading is still true and nothing has been uploaded or detected
C19_Witness ==
    /\ editor = "offset"
    /\ loadModels = "failed"
    /\ isLoading
    /\ error = Msg("Failed to load face detection models.")
    /\ pending = {}
    /\ faceDetection = Null

\* C20 (as claimed): Auto-Fit Head Size changes nothing without a face or an
\* image; otherwise it sets both offsets to 0 and the zoom factor to
\* targetHeadHeightPx / (chin.y - topOfHead.y) clamped to [0, 0.4], and a
\* second invocation right after it would leave the zoom factor and the
\* offsets as the first left them
C20_AutoFitIdempotent ==
    [][handleAutoFitHeadSize =>
         IF faceDetection = Null \/ originalImage = Null
           THEN UNCHANGED <<zoomFactor, verticalOffset, horizontalOffset>>
           ELSE LET chin == faceDetection.positions[8]
                    headHeight(zoom) ==
                        RSub(R(chin.y), getTopOfHead(faceDetection, zoom).y)
                    fit(zoom) ==
                        RMin(RMax(RDiv(targetHeadHeightPx, headHeight(zoom)),
                                  MIN_ZOOM_FACTOR), MAX_ZOOM_FACTOR)
                IN  /\ zoomFactor' = fit(zoomFactor)
                    /\ verticalOffset' = 0
                    /\ horizontalOffset' = 0
                    /\ fit(zoomFactor') = zoomFactor']_vars

====
